---- MODULE Spec2Model ----
(***************************************************************************)
(* Model of the App component (interaction path, history window, content   *)
(* cache, streamed generations) and of streamAppContent.                   *)
(*                                                                         *)
(* Strings are modelled by what the code does with them:                   *)
(*   - an identifier is a sequence of atoms, so that join('__') is a real  *)
(*     concatenation with the separator atom between the elements;         *)
(*   - markup (llmContent, a cache value, a stream chunk) is a sequence of *)
(*     blocks <<kind, generation, index>>, so that `prev + chunk` is       *)
(*     sequence concatenation and the origin of every block stays visible. *)
(***************************************************************************)
EXTENDS Integers, Sequences, FiniteSets, TLC

\* ---------------------------------------------------------------- bounds
MAX_HISTORY_LENGTH == 2     \* the history window H
MaxTasks == 3               \* asynchronous requests started in one behaviour
MaxStudioTasks == 2         \* the same, when the markup offers the studio ids
MaxChunks == 2              \* text chunks delivered in one behaviour
MaxActive == 2              \* generation streams in flight at once
MaxLiveTasks == 3           \* asynchronous requests, when the markup offers the session ids
MaxFrames == 1              \* captured frames transmitted by one session
PromptHistoryLength == 3    \* MAX_HISTORY_LENGTH, where the prompt is followed
MaxClicks == 3              \* clicks before the request the prompt is built for
ShortLabel == 5             \* characters of a short name or element text
LongLabel == 80             \* characters of a long one
MaxKeyTasks == 3            \* asynchronous requests, when the ids are followed atom by atom

\* -------------------------------------------------------------- constants
ELEMENT_TEXT_LIMIT == 75    \* .substring(0, 75) of handleClick

\* ------------------------------------------------------------ identifiers
SEP == "__"
NoApp == <<>>                                  \* activeApp === null
TASK_HANDOFF_APP == <<"task_handoff_app">>
WEB_BROWSER_APP == <<"web_browser_app">>
APP_DEFINITIONS_CONFIG == {WEB_BROWSER_APP, TASK_HANDOFF_APP}

\* `custom_${appName...}_${Date.now()}`: one fresh id for each installation
CustomAtoms == <<"custom_1", "custom_2", "custom_3", "custom_4", "custom_5">>
CustomAppId(k) == <<CustomAtoms[k]>>

APP_CLOSE_BUTTON == <<"app_close_button">>
GENERATE_IMAGEN == <<"generate_imagen_action">>
GENERATE_VEO == <<"generate_veo_action">>
START_LIVE_SESSION == <<"start-live-session">>
STOP_LIVE_SESSION == <<"stop-live-session">>
INSTALL_NEW_APP == <<"install_new_app_action">>
OPEN_AI_VOICE == <<"open-ai-voice">>
GENERIC_BUTTON == <<"generic_button">>   \* any other id generated markup carries
\* ids handled by the standard logic whatever their value
GenericIds == {OPEN_AI_VOICE, GENERIC_BUTTON}
\* ids with a branch of their own only when a value comes with them
ValueIds == {GENERATE_IMAGEN, GENERATE_VEO, INSTALL_NEW_APP}
PlainIds == GenericIds \cup {APP_CLOSE_BUTTON}
LiveIds == {START_LIVE_SESSION, STOP_LIVE_SESSION}
\* dataset.interactionId is whatever the generated markup carries
NESTED_BUTTON == <<"generic", SEP, "button">>
KeyIds == {GENERIC_BUTTON, NESTED_BUTTON}
InteractionIds == PlainIds \cup ValueIds \cup LiveIds

\* appName as the install form hands it over: any text
LONG_WORD == "a-word-of-LongLabel-characters"
AppNames ==
  {<<"Notes">>, <<"My", " ", " ", "Notes">>, <<"my", SEP, "notes">>,
   <<LONG_WORD>>}

\* String.prototype.toLowerCase, on the words of AppNames
ToLowerCase(word) ==
  IF word = "Notes" THEN "notes" ELSE IF word = "My" THEN "my" ELSE word

\* appName.toLowerCase().replace(/\s+/g, '_'): every run of white space
\* becomes one underscore, every other character is kept
RECURSIVE NormalizeName(_)
NormalizeName(appName) ==
  IF appName = <<>> THEN <<>>
  ELSE IF Head(appName) # " "
       THEN <<ToLowerCase(Head(appName))>> \o NormalizeName(Tail(appName))
  ELSE IF Len(appName) > 1 /\ appName[2] = " "
       THEN NormalizeName(Tail(appName))
  ELSE <<"_">> \o NormalizeName(Tail(appName))

\* `custom_${appName.toLowerCase().replace(/\s+/g, '_')}_${Date.now()}`
CustomAppIdOf(appName, now) ==
  <<"custom_">> \o NormalizeName(appName) \o <<"_", now>>

\* AppDefinition.name: what the user typed for an installed app; the names
\* of the apps of APP_DEFINITIONS_CONFIG are short
NameOf(app) ==
  IF \E appName \in AppNames : app = CustomAppIdOf(appName, "now")
  THEN CHOOSE appName \in AppNames : app = CustomAppIdOf(appName, "now")
  ELSE app

\* String.prototype.length: a text is followed by its length in characters
Length(word) ==
  IF word = LONG_WORD THEN LongLabel
  ELSE IF word \in {"My", "my", SEP} THEN 2
  ELSE IF word \in {" ", "_"} THEN 1
  ELSE ShortLabel

RECURSIVE TextLength(_)
TextLength(text) ==
  IF text = <<>> THEN 0 ELSE Length(Head(text)) + TextLength(Tail(text))

\* String.prototype.substring(0, n), on the length
Substring(length, n) == IF length > n THEN n ELSE length

\* (innerText || value || '').trim(): the text of the element clicked, which
\* generated markup makes as long as it likes
InnerTextLength(id) == IF id = NESTED_BUTTON THEN LongLabel ELSE ShortLabel

\* blocks of markup the handlers write themselves
LISTENING == <<"listening", 0, 0>>       \* carries the stop-live-session button
SESSION_ENDED == <<"ended", 0, 0>>       \* carries the open-ai-voice button
IMAGEN_WAIT == <<"imagen_wait", 0, 0>>
IMAGE == <<"image", 0, 0>>
\* the Veo placeholder: the outer <div> with the spinner <div></div> inside,
\* then the <p> and the closing </div>
VEO_WAIT_HEAD == <<"veo_wait_head", 0, 0>>
VEO_WAIT_TAIL == <<"veo_wait_tail", 0, 0>>
VIDEO == <<"video", 0, 0>>

NoError == "null"
NullContent == <<<<"null", 0, 0>>>>            \* previousContent === null

\* Array.prototype.join('__')
RECURSIVE Join(_)
Join(path) ==
  IF Len(path) = 0 THEN <<>>
  ELSE IF Len(path) = 1 THEN path[1]
  ELSE path[1] \o <<SEP>> \o Join(Tail(path))

Min(a, b) == IF a < b THEN a ELSE b

\* String.prototype.replace(regex, ''): the first match is removed
RECURSIVE RemoveFirst(_, _)
RemoveFirst(content, block) ==
  IF content = <<>> THEN <<>>
  ELSE IF Head(content) = block THEN Tail(content)
  ELSE <<Head(content)>> \o RemoveFirst(Tail(content), block)

\* Array.prototype.slice(0, n)
Slice0TakesOneMore(s, n) == SubSeq(s, 1, Min(n + 1, Len(s)))
Slice0(s, n) == SubSeq(s, 1, Min(n, Len(s)))

\* ------------------------------------------------------------------ state
VARIABLES
  activeApp,              \* id of the active AppDefinition, or NoApp
  llmContent,             \* markup shown, a sequence of blocks
  isLoading,
  error,
  interactionHistory,     \* sequence of InteractionData, most recent first
  appDefinitions,         \* ids of the apps on the desktop
  appContentCache,        \* Record<string,string>: a function on its keys
  currentAppPath,         \* sequence of ids
  inputAudioContextRef,   \* 0 (null) or the number of the session that made it
  outputAudioContextRef,
  liveSessionRef,
  liveCount,              \* live sessions started so far
  sessions,               \* the audio devices and the transport of each
  gens,                   \* the activations of internalHandleLlmRequest
  arts,                   \* the image, video and icon requests
  apiKey,                 \* process.env.API_KEY is set
  markupIds,              \* the data-interaction-ids generated markup carries
  cacheSet,               \* the last step called setAppContentCache
  \* one activation of internalHandleLlmRequest and the streamAppContent
  \* generator it drives, statement by statement
  historyArg,             \* the argument historyForLlm
  response,               \* what the remote stream delivers: its chunks
  throws,                 \* the remote stream fails after the last of them
  pc,                     \* where the activation stands
  pos,                    \* chunks of the response consumed
  allGroundingChunks,     \* the Map, as its entries in iteration order
  yielded,                \* the fragments the generator has yielded
  accumulatedContent,     \* the local of internalHandleLlmRequest
  historyPromptSegment,   \* streamAppContent: the numbered prior interactions
  \* createPcmBlob, decode and decodeAudioData applied to one frame
  data,                   \* the Float32Array of createPcmBlob
  int16,                  \* its Int16Array
  base64,                 \* Blob.data
  channelData,            \* the channel of the decoded AudioBuffer
  stage,                  \* how far the frame has travelled
  \* the playback of one live session
  nextStartTime,          \* the cursor
  currentTime,            \* outputAudioContextRef.current.currentTime
  started                 \* the calls of source.start, in order

uiVars == <<activeApp, llmContent, isLoading, error, interactionHistory,
            currentAppPath>>
audioVars == <<inputAudioContextRef, outputAudioContextRef, liveSessionRef,
               liveCount, sessions>>
streamVars == <<historyArg, response, throws, pc, pos, allGroundingChunks,
                yielded, accumulatedContent, historyPromptSegment>>
pcmVars == <<data, int16, base64, channelData, stage>>
playVars == <<nextStartTime, currentTime, started>>
\* what the specification of App does not follow
detailVars == <<streamVars, pcmVars, playVars>>
vars == <<activeApp, llmContent, isLoading, error, interactionHistory,
          appDefinitions, appContentCache, currentAppPath,
          inputAudioContextRef, outputAudioContextRef, liveSessionRef,
          liveCount, sessions, gens, arts, apiKey, markupIds, cacheSet,
          detailVars>>

\* No activation is followed statement by statement.
StreamIdle ==
  /\ historyArg = <<>>
  /\ response = <<>>
  /\ throws = FALSE
  /\ pc = "idle"
  /\ pos = 0
  /\ allGroundingChunks = <<>>
  /\ yielded = <<>>
  /\ accumulatedContent = <<>>
  /\ historyPromptSegment = <<>>

\* No frame is being converted.
PcmIdle ==
  /\ data = <<>>
  /\ int16 = <<>>
  /\ base64 = <<>>
  /\ channelData = <<>>
  /\ stage = "idle"

\* `let nextStartTime = 0`; no output device, nothing started.
PlayIdle ==
  /\ nextStartTime = 0
  /\ currentTime = 0
  /\ started = <<>>

\* appContentCache[cacheKey]; undefined is falsy, as is the empty string
CacheGet(cache, cacheKey) ==
  IF cacheKey \in DOMAIN cache THEN cache[cacheKey] ELSE <<>>

\* {...prevCache, [cacheKey]: content}
CachePut(cache, cacheKey, content) ==
  [k \in (DOMAIN cache) \cup {cacheKey} |->
     IF k = cacheKey THEN content ELSE cache[k]]

\* The condition under which the cache effect calls setAppContentCache.
CacheEffectWritesAlways(app, content, loading, path, cache) ==
  /\ app # TASK_HANDOFF_APP
  /\ ~loading
  /\ Len(path) > 0
  /\ content # <<>>
CacheEffectWrites(app, content, loading, path, cache) ==
  /\ app # TASK_HANDOFF_APP
  /\ ~loading
  /\ Len(path) > 0
  /\ content # <<>>
  /\ CacheGet(cache, Join(path)) # content

\* useEffect(..., [llmContent, isLoading, currentAppPath, appContentCache,
\* activeApp]): runs after every commit, on the committed values.
CacheEffect(app, content, loading, path, cache) ==
  IF CacheEffectWrites(app, content, loading, path, cache)
  THEN CachePut(cache, Join(path), content)
  ELSE cache

\* What every handler ends with: the commit, then the cache effect.
Commit ==
  /\ cacheSet' = CacheEffectWrites(activeApp', llmContent', isLoading',
                                   currentAppPath', appContentCache)
  /\ appContentCache' = CacheEffect(activeApp', llmContent', isLoading',
                                    currentAppPath', appContentCache)

\* The lookup of handleInteraction / handleAppOpen: the stored markup, or
\* the empty (falsy) value for a miss.
CacheLookupNoExclusion(cache, cacheKey, appId) == CacheGet(cache, cacheKey)
CacheLookupAlwaysMiss(cache, cacheKey, appId) == <<>>
CacheLookup(cache, cacheKey, appId) ==
  IF appId # TASK_HANDOFF_APP /\ CacheGet(cache, cacheKey) # <<>>
  THEN CacheGet(cache, cacheKey)
  ELSE <<>>

Init ==
  /\ activeApp = NoApp
  /\ llmContent = <<>>
  /\ isLoading = FALSE
  /\ error = NoError
  /\ interactionHistory = <<>>
  /\ appDefinitions = APP_DEFINITIONS_CONFIG
  /\ appContentCache = <<>>
  /\ currentAppPath = <<>>
  /\ inputAudioContextRef = 0
  /\ outputAudioContextRef = 0
  /\ liveSessionRef = 0
  /\ liveCount = 0
  /\ sessions = <<>>
  /\ gens = <<>>
  /\ arts = <<>>
  /\ apiKey \in BOOLEAN
  /\ markupIds \in {PlainIds, InteractionIds}
  /\ cacheSet = FALSE
  /\ StreamIdle
  /\ PcmIdle
  /\ PlayIdle

\* asynchronous requests started so far, and how many the model follows
Tasks == Len(gens) + Len(arts) + liveCount
TaskBound ==
  IF markupIds = PlainIds THEN MaxTasks
  ELSE IF markupIds = LiveIds THEN MaxLiveTasks
  ELSE IF markupIds = KeyIds THEN MaxKeyTasks ELSE MaxStudioTasks

\* ------------------------------------------------ internalHandleLlmRequest
ActiveGens == {g \in 1..Len(gens) : gens[g].st \in {"run", "ending"}}

RECURSIVE SumN(_)
SumN(s) == IF s = <<>> THEN 0 ELSE s[1].n + SumN(Tail(s))
Chunks == SumN(gens)

\* The text chunks generation g has yielded: chunk i of generation g.
RECURSIVE Frags(_, _)
Frags(g, n) == IF n = 0 THEN <<>> ELSE Frags(g, n - 1) \o <<<<"frag", g, n>>>>

\* The local accumulatedContent of activation g: every chunk so far.
AccumulatedContent(g) ==
  Frags(g, gens[g].n) \o
  (IF gens[g].last = "none" THEN <<>> ELSE <<<<gens[g].last, g, 0>>>>)

NewGen(historyForLlm, previousContent, cacheKey) ==
  [st |-> "run", n |-> 0, last |-> "none",
   history |-> historyForLlm, previousContent |-> previousContent,
   key |-> cacheKey]

\* An activation that has returned: its frame is gone.
DoneGen(g) ==
  [st |-> "done", n |-> gens[g].n, last |-> "none",
   history |-> <<>>, previousContent |-> <<>>, key |-> <<>>]

\* The synchronous part, up to the first await of the for-await loop.  The
\* caller has already set llmContent, error, path and history.
internalHandleLlmRequestNoGuard(historyForLlm, previousContent, cacheKey) ==
  /\ Tasks < TaskBound
  /\ Cardinality(ActiveGens) < MaxActive
  /\ isLoading' = TRUE
  /\ error' = NoError
  /\ gens' = Append(gens, NewGen(historyForLlm, previousContent, cacheKey))
internalHandleLlmRequest(historyForLlm, previousContent, cacheKey) ==
  IF Len(historyForLlm) = 0
  THEN /\ error' = "No interaction data to process."
       /\ UNCHANGED <<isLoading, gens>>
  ELSE /\ Tasks < TaskBound
       /\ Cardinality(ActiveGens) < MaxActive
       /\ isLoading' = TRUE
       /\ error' = NoError
       /\ gens' = Append(gens, NewGen(historyForLlm, previousContent, cacheKey))

\* One iteration of `for await (const chunk of stream)`:
\* accumulatedContent += chunk; setLlmContent((prev) => prev + chunk)
Deliver(g, chunk) ==
  /\ gens' = [gens EXCEPT
                ![g].n = IF chunk[1] = "frag" THEN @ + 1 ELSE @,
                ![g].last = IF chunk[1] = "frag" THEN "none" ELSE chunk[1],
                ![g].st = IF chunk[1] = "frag" THEN "run" ELSE "ending"]
  /\ llmContent' = llmContent \o <<chunk>>
  /\ UNCHANGED <<activeApp, isLoading, error, interactionHistory,
                 currentAppPath, appDefinitions, audioVars, arts, apiKey, markupIds, detailVars>>
  /\ Commit

\* streamAppContent: `yield chunk.text`
StreamFragment(g) ==
  /\ g \in 1..Len(gens)
  /\ gens[g].st = "run"
  /\ apiKey
  /\ Chunks < MaxChunks
  /\ Deliver(g, <<"frag", g, gens[g].n + 1>>)

\* streamAppContent: the API_KEY check yields the configuration block
StreamConfigError(g) ==
  /\ g \in 1..Len(gens)
  /\ gens[g].st = "run"
  /\ ~apiKey
  /\ Deliver(g, <<"cfg", g, 0>>)

\* streamAppContent: the catch clause yields the error block
StreamFail(g) ==
  /\ g \in 1..Len(gens)
  /\ gens[g].st = "run"
  /\ apiKey
  /\ Deliver(g, <<"err", g, 0>>)

\* The generator returns; the finally clause runs setIsLoading(false).
StreamEnd(g) ==
  /\ g \in 1..Len(gens)
  /\ \/ gens[g].st = "run" /\ apiKey
     \/ gens[g].st = "ending"
  /\ gens' = [gens EXCEPT ![g] = DoneGen(g)]
  /\ isLoading' = FALSE
  /\ UNCHANGED <<activeApp, llmContent, error, interactionHistory,
                 currentAppPath, appDefinitions, audioVars, arts, apiKey, markupIds, detailVars>>
  /\ Commit

\* ------------------------------------------------------------ handleAppOpen
\* the app_open record handleAppOpen builds: elementText is app.name
AppOpenRecord(app) ==
  [id |-> app, type |-> "app_open", appContext |-> app, value |-> "",
   elementText |-> TextLength(NameOf(app))]

\* the record handleClick builds: elementText is the text of the element,
\* trimmed and cut
InteractionRecord(id, app, value) ==
  [id |-> id, type |-> "generic_click", appContext |-> app, value |-> value,
   elementText |-> Substring(InnerTextLength(id), ELEMENT_TEXT_LIMIT)]

handleAppOpen(app) ==
  /\ activeApp = NoApp                 \* DesktopView is rendered
  /\ app \in appDefinitions
  /\ LET initialInteraction == AppOpenRecord(app)
         newHistory == <<initialInteraction>>
         appPath == <<app>>
         cacheKey == Join(appPath)
     IN /\ interactionHistory' = newHistory
        /\ currentAppPath' = appPath
        /\ activeApp' = app
        /\ IF CacheLookup(appContentCache, cacheKey, app) # <<>>
           THEN /\ llmContent' = CacheLookup(appContentCache, cacheKey, app)
                /\ isLoading' = FALSE
                /\ error' = NoError
                /\ UNCHANGED gens
           ELSE /\ llmContent' = <<>>
                /\ internalHandleLlmRequest(newHistory, NullContent, cacheKey)
  /\ UNCHANGED <<appDefinitions, audioVars, arts, apiKey, markupIds, detailVars>>
  /\ Commit

\* -------------------------------------------------------- handleCloseAppView
\* What start-live-session creates, up to the point `thrown` where its try
\* block throws: the two AudioContexts and the transport ai.live.connect
\* opens.  mic, capture and frames follow the onopen callback of the session,
\* playedFrom the sessions whose onmessage started a buffer on the output.
NewSession(thrown) ==
  [input |-> IF thrown = "before_input" THEN "none" ELSE "open",
   output |-> IF thrown \in {"before_input", "before_output"}
              THEN "none" ELSE "open",
   transport |-> IF thrown = "none" THEN "connecting" ELSE "none",
   mic |-> "off", capture |-> 0, frames |-> 0, playedFrom |-> {},
   stopped |-> FALSE]

\* AudioContext.close()
CloseContextLeavesOpen(state) == state
CloseContext(state) == IF state = "open" THEN "closed" ELSE state

\* if (ref.current) { ref.current.close(); ref.current = null } for the two
\* devices, and liveSessionRef.current = null: what becomes of the sessions
Released(ss, inputRef, outputRef, liveRef) ==
  [k \in 1..Len(ss) |->
     [ss[k] EXCEPT
        !.input = IF inputRef = k THEN CloseContext(@) ELSE @,
        !.output = IF outputRef = k THEN CloseContext(@) ELSE @,
        !.stopped = @ \/ k \in {inputRef, outputRef, liveRef}]]

CloseAppView ==
  /\ sessions' = Released(sessions, inputAudioContextRef,
                          outputAudioContextRef, liveSessionRef)
  /\ liveSessionRef' = 0
  /\ inputAudioContextRef' = 0
  /\ outputAudioContextRef' = 0
  /\ activeApp' = NoApp
  /\ llmContent' = <<>>
  /\ error' = NoError
  /\ interactionHistory' = <<>>
  /\ currentAppPath' = <<>>
  /\ isLoading' = FALSE

\* the close button of Window
handleCloseAppView ==
  /\ activeApp # NoApp                 \* isAppOpen
  /\ CloseAppView
  /\ UNCHANGED <<appDefinitions, liveCount, gens, arts, apiKey, markupIds, detailVars>>
  /\ Commit

\* -------------------------------------------------------- handleInteraction
\* GeneratedContent is mounted when an app is active and
\* (!isLoading || llmContent)
Rendered == activeApp # NoApp /\ (~isLoading \/ llmContent # <<>>)

\* The ids of the elements the markup offers for a click.  Generated text is
\* arbitrary markup: it can carry any data-interaction-id.
ClickableIds(content) ==
  (IF \E i \in 1..Len(content) : content[i][1] = "frag"
   THEN markupIds ELSE {})
  \cup (IF \E i \in 1..Len(content) : content[i] = LISTENING
        THEN {STOP_LIVE_SESSION} ELSE {})
  \cup (IF \E i \in 1..Len(content) : content[i] = SESSION_ENDED
        THEN {OPEN_AI_VOICE} ELSE {})

\* interactionData.value: absent or empty, a JSON object with the fields the
\* branch reads, or anything JSON.parse or the destructuring rejects
Values(id) == IF id \in ValueIds THEN {"", "json", "bad"} ELSE {""}

\* The records handleClick of GeneratedContent can build.
InteractionInputs ==
  UNION {{InteractionRecord(i, activeApp, v) : v \in Values(i)}
         : i \in ClickableIds(llmContent)}

\* if (id === 'generate_imagen_action' && value)
ImagenInteraction(d) ==
  /\ d.id = GENERATE_IMAGEN /\ d.value # ""
  /\ IF d.value = "bad"
     THEN /\ isLoading' = FALSE                         \* catch, finally
          /\ UNCHANGED <<llmContent, arts>>
     ELSE /\ Tasks < TaskBound
          /\ isLoading' = TRUE
          /\ llmContent' = llmContent \o <<IMAGEN_WAIT>>
          /\ arts' = Append(arts, [kind |-> "imagen", st |-> "wait"])
  /\ UNCHANGED <<activeApp, error, interactionHistory, currentAppPath,
                 appDefinitions, audioVars, gens, apiKey, markupIds, detailVars>>
  /\ Commit

\* if (id === 'generate_veo_action' && value); window.aistudio is absent
VeoInteraction(d) ==
  /\ d.id = GENERATE_VEO /\ d.value # ""
  /\ IF d.value = "bad"
     THEN /\ isLoading' = FALSE                         \* catch, finally
          /\ llmContent' = RemoveFirst(llmContent, VEO_WAIT_HEAD)
          /\ UNCHANGED arts
     ELSE /\ Tasks < TaskBound
          /\ isLoading' = TRUE
          /\ llmContent' = llmContent \o <<VEO_WAIT_HEAD, VEO_WAIT_TAIL>>
          /\ arts' = Append(arts, [kind |-> "veo", st |-> "wait"])
  /\ UNCHANGED <<activeApp, error, interactionHistory, currentAppPath,
                 appDefinitions, audioVars, gens, apiKey, markupIds, detailVars>>
  /\ Commit

\* generateImageWithGemini / generateVideoWithVeo resolves
ArtifactResolve(t) ==
  /\ t \in 1..Len(arts)
  /\ arts[t].st = "wait"
  /\ arts[t].kind \in {"imagen", "veo"}
  /\ llmContent' =
       IF arts[t].kind = "imagen"
       THEN RemoveFirst(llmContent, IMAGEN_WAIT) \o <<IMAGE>>
       ELSE RemoveFirst(llmContent, VEO_WAIT_HEAD) \o <<VIDEO>>
  /\ isLoading' = FALSE
  /\ arts' = [arts EXCEPT ![t].st = "done"]
  /\ UNCHANGED <<activeApp, error, interactionHistory, currentAppPath,
                 appDefinitions, audioVars, gens, apiKey, markupIds, detailVars>>
  /\ Commit

\* generateImageWithGemini / generateVideoWithVeo rejects
ArtifactReject(t) ==
  /\ t \in 1..Len(arts)
  /\ arts[t].st = "wait"
  /\ arts[t].kind \in {"imagen", "veo"}
  /\ llmContent' =
       IF arts[t].kind = "imagen"
       THEN llmContent
       ELSE RemoveFirst(llmContent, VEO_WAIT_HEAD)
  /\ isLoading' = FALSE
  /\ arts' = [arts EXCEPT ![t].st = "done"]
  /\ UNCHANGED <<activeApp, error, interactionHistory, currentAppPath,
                 appDefinitions, audioVars, gens, apiKey, markupIds, detailVars>>
  /\ Commit

\* if (id === 'start-live-session'): the part that runs in the handler.
\* `thrown` is where the try block throws, if it does.
StartLiveSession(d, thrown) ==
  /\ d.id = START_LIVE_SESSION
  /\ Tasks < TaskBound
  /\ liveCount' = liveCount + 1
  /\ sessions' = Append(sessions, NewSession(thrown))
  /\ llmContent' = <<LISTENING>>
  /\ inputAudioContextRef' =
       IF thrown = "before_input" THEN inputAudioContextRef ELSE liveCount'
  /\ outputAudioContextRef' =
       IF thrown \in {"before_input", "before_output"}
       THEN outputAudioContextRef ELSE liveCount'
  /\ liveSessionRef' = IF thrown = "none" THEN liveCount' ELSE liveSessionRef
  /\ error' =
       IF thrown = "none" THEN error
       ELSE "Failed to start audio session. Please check microphone permissions."
  /\ isLoading' = FALSE                                 \* finally
  /\ UNCHANGED <<activeApp, interactionHistory, currentAppPath,
                 appDefinitions, gens, arts, apiKey, markupIds, detailVars>>
  /\ Commit

\* if (id === 'stop-live-session')
StopLiveSession(d) ==
  /\ d.id = STOP_LIVE_SESSION
  /\ sessions' = Released(sessions, inputAudioContextRef,
                          outputAudioContextRef, liveSessionRef)
  /\ inputAudioContextRef' = 0
  /\ outputAudioContextRef' = 0
  /\ liveSessionRef' = 0
  /\ llmContent' = <<SESSION_ENDED>>
  /\ UNCHANGED <<activeApp, isLoading, error, interactionHistory,
                 currentAppPath, appDefinitions, liveCount, gens, arts, apiKey, markupIds, detailVars>>
  /\ Commit

\* if (id === 'install_new_app_action' && value)
InstallInteraction(d) ==
  /\ d.id = INSTALL_NEW_APP /\ d.value # ""
  /\ IF d.value = "bad"
     THEN UNCHANGED <<llmContent, error, isLoading, arts>>   \* alert only
     ELSE /\ Tasks < TaskBound
          /\ llmContent' = <<>>
          /\ error' = NoError
          /\ isLoading' = TRUE
          /\ arts' = Append(arts, [kind |-> "icon", st |-> "wait"])
  /\ UNCHANGED <<activeApp, interactionHistory, currentAppPath,
                 appDefinitions, audioVars, gens, apiKey, markupIds, detailVars>>
  /\ Commit

\* generateAppIcon resolves (it never rejects): the app is added and the
\* finally clause returns to the desktop.
InstallDone(t) ==
  /\ t \in 1..Len(arts)
  /\ arts[t].st = "wait"
  /\ arts[t].kind = "icon"
  /\ appDefinitions' = appDefinitions \cup {CustomAppId(t)}
  /\ CloseAppView
  /\ arts' = [arts EXCEPT ![t].st = "done"]
  /\ UNCHANGED <<liveCount, gens, apiKey, markupIds, detailVars>>
  /\ Commit

\* if (id === 'app_close_button')
CloseButtonInteraction(d) ==
  /\ d.id = APP_CLOSE_BUTTON
  /\ CloseAppView
  /\ UNCHANGED <<appDefinitions, liveCount, gens, arts, apiKey, markupIds, detailVars>>
  /\ Commit

\* [interactionData, ...interactionHistory.slice(0, MAX_HISTORY_LENGTH - 1)]
NewHistoryOf(d, history, window) == <<d>> \o Slice0(history, window - 1)
NewHistory(d, history) == NewHistoryOf(d, history, MAX_HISTORY_LENGTH)

\* activeApp ? [...currentAppPath, interactionData.id] : [interactionData.id]
NewPathPrepends(app, path, id) == <<id>> \o path
NewPath(app, path, id) == IF app # NoApp THEN path \o <<id>> ELSE <<id>>

\* The interaction reaches the standard logic.
IsStandard(d) ==
  /\ ~(d.id \in ValueIds /\ d.value # "")
  /\ d.id \notin {START_LIVE_SESSION, STOP_LIVE_SESSION, APP_CLOSE_BUTTON}

StandardInteraction(d) ==
  /\ IsStandard(d)
  /\ LET previousContent == llmContent
         newHistory == NewHistory(d, interactionHistory)
         newPath == NewPath(activeApp, currentAppPath, d.id)
         cacheKey == Join(newPath)
     IN /\ interactionHistory' = newHistory
        /\ currentAppPath' = newPath
        /\ IF CacheLookup(appContentCache, cacheKey, activeApp) # <<>>
           THEN /\ llmContent' = CacheLookup(appContentCache, cacheKey, activeApp)
                /\ isLoading' = FALSE
                /\ error' = NoError
                /\ UNCHANGED gens
           ELSE /\ llmContent' = <<>>
                /\ internalHandleLlmRequest(newHistory, previousContent, cacheKey)
  /\ UNCHANGED <<activeApp, appDefinitions, audioVars, arts, apiKey, markupIds, detailVars>>
  /\ Commit

handleInteraction(d) ==
  /\ Rendered
  /\ \/ ImagenInteraction(d)
     \/ VeoInteraction(d)
     \/ \E thrown \in {"none", "before_input", "before_output", "connect"} :
          StartLiveSession(d, thrown)
     \/ StopLiveSession(d)
     \/ InstallInteraction(d)
     \/ CloseButtonInteraction(d)
     \/ StandardInteraction(d)

Next ==
  \/ \E app \in appDefinitions : handleAppOpen(app)
  \/ handleCloseAppView
  \/ \E d \in InteractionInputs : handleInteraction(d)
  \/ \E g \in 1..Len(gens) : StreamFragment(g)
  \/ \E g \in 1..Len(gens) : StreamConfigError(g)
  \/ \E g \in 1..Len(gens) : StreamFail(g)
  \/ \E g \in 1..Len(gens) : StreamEnd(g)
  \/ \E t \in 1..Len(arts) : ArtifactResolve(t)
  \/ \E t \in 1..Len(arts) : ArtifactReject(t)
  \/ \E t \in 1..Len(arts) : InstallDone(t)

Spec == Init /\ [][Next]_vars

\* ----------------------------------------------------------------- steps
\* A step that opens an app.
OpenStep == activeApp = NoApp /\ activeApp' # NoApp

\* A step in which generation g delivers a chunk.
ChunkStep(g) ==
  /\ g \in ActiveGens
  /\ gens[g].st = "run"
  /\ gens'[g].st # "done"
  /\ <<gens'[g].n, gens'[g].last>> # <<gens[g].n, gens[g].last>>

\* A step in which generation g returns.
EndStep(g) == g \in ActiveGens /\ gens'[g].st = "done"

\* A step in which a handler consults the cache: the path has been set anew.
LookupStep == currentAppPath' # currentAppPath /\ currentAppPath' # <<>>

\* ---------------------------------------------------------------- claims

\* C1: a cache entry is written only when a generation has just completed,
\* and the value written is that generation's complete output under that
\* generation's key: never a prefix of a running stream, never a mix of the
\* chunks of two streams.
C1_CacheHoldsCompleteOutputs ==
  [][cacheSet' =>
       \E g \in ActiveGens :
         /\ EndStep(g)
         /\ Join(currentAppPath') = gens[g].key
         /\ CacheGet(appContentCache', gens[g].key) = AccumulatedContent(g)]_vars

\* C2: at most one generation stream is in flight at any time.
C2_AtMostOneActiveGeneration == Cardinality(ActiveGens) <= 1

\* C3: a chunk changes llmContent only when it comes from the most recently
\* started generation; the chunks of a superseded stream are inert.
C3_SupersededChunksInert ==
  [][\A g \in ActiveGens :
       (ChunkStep(g) /\ llmContent' # llmContent) => g = Len(gens)]_vars

\* C4: when a generation ends with a terminal error block (configuration
\* error or streaming failure), the step that ends it writes no cache entry.
C4_NoCacheWriteOnTerminalError ==
  [][\A g \in ActiveGens :
       (EndStep(g) /\ gens[g].last \in {"err", "cfg"}) => ~cacheSet']_vars

\* C5: while task_handoff_app is the active app, the lookup misses for
\* every key the cache holds, and every handler that consults the cache
\* starts a new generation on an emptied screen.
C5_StatelessAppAlwaysGenerates ==
  /\ [](\A k \in DOMAIN appContentCache :
          CacheLookup(appContentCache, k, TASK_HANDOFF_APP) = <<>>)
  /\ [][(LookupStep /\ activeApp' = TASK_HANDOFF_APP) =>
          /\ Len(gens') = Len(gens) + 1
          /\ gens'[Len(gens')].st = "run"
          /\ llmContent' = <<>>
          /\ isLoading']_vars

\* the stateless app is active two levels deep, the cache holds entries, and
\* the click has just started a generation
C5_Witness ==
  /\ activeApp = TASK_HANDOFF_APP
  /\ Len(currentAppPath) >= 2
  /\ DOMAIN appContentCache # {}
  /\ isLoading /\ llmContent = <<>>
  /\ Len(gens) >= 1
  /\ gens[Len(gens)].st = "run"
  /\ gens[Len(gens)].key = Join(currentAppPath)

\* The cache effect would fire on the committed state but for the comparison
\* with the stored entry.
IdenticalPut ==
  /\ activeApp' # TASK_HANDOFF_APP
  /\ ~isLoading'
  /\ currentAppPath' # <<>>
  /\ llmContent' # <<>>
  /\ CacheGet(appContentCache, Join(currentAppPath')) = llmContent'

\* C6: for a non-excluded app, after a write of c under k the lookup of k
\* returns exactly c and no other key changes; a write of the content already
\* stored under k issues no state update and leaves the cache as it was.
C6_PutThenGet ==
  [][/\ cacheSet' =>
          /\ CacheLookup(appContentCache', Join(currentAppPath'), activeApp')
               = llmContent'
          /\ \A k \in DOMAIN appContentCache :
               k # Join(currentAppPath') =>
                 CacheGet(appContentCache', k) = appContentCache[k]
     /\ IdenticalPut => (~cacheSet' /\ appContentCache' = appContentCache)
     /\ appContentCache' # appContentCache => cacheSet']_vars

\* a write has just replaced one of several entries
C6_Witness ==
  /\ cacheSet
  /\ Cardinality(DOMAIN appContentCache) >= 2
  /\ Len(llmContent) >= 2
  /\ CacheGet(appContentCache, Join(currentAppPath)) = llmContent

\* Generation g was started by handleAppOpen and is returning.
OpenedGenEnds(g) ==
  /\ EndStep(g)
  /\ gens[g].history = <<AppOpenRecord(gens[g].key)>>

\* Opening an app with no cache entry starts one generation, seeded with the
\* single app_open record and null previous content.
C7_OpenMissStartsOne ==
  (OpenStep /\ CacheGet(appContentCache, activeApp') = <<>>) =>
    /\ Len(gens') = Len(gens) + 1
    /\ gens'[Len(gens')] =
         NewGen(<<AppOpenRecord(activeApp')>>, NullContent, activeApp')
    /\ llmContent' = <<>>

\* Opening an app whose key has an entry serves it and starts nothing.
C7_OpenHitServes ==
  (OpenStep /\ CacheGet(appContentCache, activeApp') # <<>>) =>
    /\ llmContent' = CacheGet(appContentCache, activeApp')
    /\ gens' = gens
    /\ ~isLoading'

\* C7 as stated: whenever the stream of an app open completes, the
\* concatenation of its chunks is stored under the app id.
C7_Original ==
  [][/\ C7_OpenMissStartsOne
     /\ C7_OpenHitServes
     /\ \A g \in ActiveGens :
          OpenedGenEnds(g) =>
            /\ gens[g].key \in DOMAIN appContentCache'
            /\ appContentCache'[gens[g].key] = AccumulatedContent(g)]_vars

\* C7 (amended): the output is stored under the app id when the app is not the
\* stateless one, the output is not empty, and at completion the path is
\* still [app id] and the screen shows exactly the chunks of that stream.
C7_OpenGenerateReopen ==
  [][/\ C7_OpenMissStartsOne
     /\ C7_OpenHitServes
     /\ \A g \in ActiveGens :
          ( /\ OpenedGenEnds(g)
            /\ gens[g].key # TASK_HANDOFF_APP
            /\ activeApp = gens[g].key
            /\ currentAppPath = <<gens[g].key>>
            /\ llmContent = AccumulatedContent(g)
            /\ llmContent # <<>> ) =>
            /\ gens[g].key \in DOMAIN appContentCache'
            /\ appContentCache'[gens[g].key] = AccumulatedContent(g)]_vars

\* the app has been closed and opened again: its two chunks are served from
\* the cache and the one generation ever started has returned
C7_Witness ==
  /\ activeApp = WEB_BROWSER_APP
  /\ currentAppPath = <<WEB_BROWSER_APP>>
  /\ ~cacheSet /\ ~isLoading
  /\ Len(gens) = 1 /\ gens[1].st = "done"
  /\ llmContent = Frags(1, 2)
  /\ CacheGet(appContentCache, WEB_BROWSER_APP) = llmContent

PathInv ==
  /\ (currentAppPath = <<>>) <=> (activeApp = NoApp)
  /\ activeApp # NoApp => currentAppPath[1] = activeApp
  /\ Len(interactionHistory) = Min(Len(currentAppPath), MAX_HISTORY_LENGTH)
  /\ \A i \in 1..Len(interactionHistory) :
       interactionHistory[i].id = currentAppPath[Len(currentAppPath) + 1 - i]

\* C9 as stated: every interaction handleInteraction handles appends its id
\* to the path and puts its record at the front of the history.
C9_Original ==
  /\ []PathInv
  /\ [][/\ OpenStep => currentAppPath' = <<activeApp'>>
        /\ \A d \in InteractionInputs :
             (Rendered /\ handleInteraction(d)) =>
               /\ currentAppPath' = currentAppPath \o <<d.id>>
               /\ interactionHistory'[1] = d]_vars

\* C9 (amended): an interaction that reaches the standard logic appends its
\* id to the path and puts its record at the front of the history; one that a
\* special branch handles leaves both alone, or clears both when it closes
\* the app; the path is empty exactly when no app is open and otherwise
\* starts with the id of the open app.
C9_PathTracksStandardInteractions ==
  /\ []PathInv
  /\ [][/\ OpenStep => currentAppPath' = <<activeApp'>>
        /\ \A d \in InteractionInputs :
             (Rendered /\ handleInteraction(d)) =>
               IF IsStandard(d)
               THEN /\ currentAppPath' = currentAppPath \o <<d.id>>
                    /\ interactionHistory'[1] = d
               ELSE \/ /\ currentAppPath' = currentAppPath
                       /\ interactionHistory' = interactionHistory
                    \/ /\ d.id = APP_CLOSE_BUTTON
                       /\ currentAppPath' = <<>>
                       /\ interactionHistory' = <<>>]_vars

\* a special interaction (the session stop) has been handled two levels deep
\* and has left the path and the history as they were
C9_Witness ==
  /\ llmContent = <<SESSION_ENDED>>
  /\ Len(currentAppPath) = 2
  /\ currentAppPath[1] = activeApp
  /\ interactionHistory[1].id = currentAppPath[2]

\* C10: while no app is open (after a close, until the next open) the content
\* is empty, nothing is loading, there is no error, and the path and the
\* history are empty.
C10_ClosedStateStays ==
  activeApp = NoApp =>
    /\ llmContent = <<>>
    /\ ~isLoading
    /\ error = NoError
    /\ currentAppPath = <<>>
    /\ interactionHistory = <<>>

\* ======================================================================
\* One activation of internalHandleLlmRequest, statement by statement: the
\* streamAppContent generator and the for-await loop that consumes it.  No
\* handler runs meanwhile.  Text is a sequence of characters, so that a
\* fragment is a piece of text and `prev + chunk` joins two pieces.
\* ======================================================================
MaxResponse == 2            \* chunks the remote stream delivers
MaxText == 2                \* characters in the text of one chunk

Chars == {1, 2}                                \* two distinct characters
TextItems == {<<"text", 1, c>> : c \in Chars}
\* chunk.text: undefined or '' (both falsy), or a piece of text
Texts == UNION {[1..n -> TextItems] : n \in 0..MaxText}

Uris == {"http://a", "http://b c"}
Titles == {"T1", "<T2>"}
\* groundingMetadata.groundingChunks of one chunk: absent, or one web entry
WebLists == {<<>>} \cup {<<[uri |-> u, title |-> t]>> : u \in Uris, t \in Titles}

CONFIG_ERROR == <<"cfg", 1, 0>>          \* the Configuration Error block
NO_INTERACTION_DATA == <<"nodata", 1, 0>>
ERROR_GENERATING == <<"err", 1, 0>>      \* the Error Generating Content block
SOURCES_HEAD == <<"sources", 1, 0>>      \* <div ...><h3>Sources</h3><ul ...>
SOURCES_TAIL == <<"sources_end", 1, 0>>  \* </ul></div>

\* encodeURI(uri)
EncodeURI(uri) == IF uri = "http://b c" THEN "http://b%20c" ELSE uri

\* title.replace(/</g, '&lt;').replace(/>/g, '&gt;')
EscapeTitle(title) == IF title = "<T2>" THEN "&lt;T2&gt;" ELSE title

\* Map.prototype.set: a known key keeps its place and takes the new value, a
\* new key goes to the end
MapSetKeepsFirst(map, uri, title) ==
  IF \E i \in 1..Len(map) : map[i][1] = uri
  THEN map
  ELSE Append(map, <<uri, title>>)
MapSet(map, uri, title) ==
  IF \E i \in 1..Len(map) : map[i][1] = uri
  THEN [i \in 1..Len(map) |-> IF map[i][1] = uri THEN <<uri, title>> ELSE map[i]]
  ELSE Append(map, <<uri, title>>)

\* for (const chunkInfo of groundingMetadata.groundingChunks) ... set(...)
RECURSIVE MapSetAll(_, _)
MapSetAll(map, web) ==
  IF web = <<>> THEN map
  ELSE MapSetAll(MapSet(map, web[1].uri, web[1].title), Tail(web))

\* one <li> of the sources block
SourceItem(entry) ==
  <<"li", EncodeURI(entry[1]),
    IF entry[2] # "" THEN EscapeTitle(entry[2]) ELSE EncodeURI(entry[1])>>

\* sourcesHtml
SourcesHtml(map) ==
  <<SOURCES_HEAD>> \o [i \in 1..Len(map) |-> SourceItem(map[i])]
    \o <<SOURCES_TAIL>>

\* if (allGroundingChunks.size > 0)
HasSourcesAlways(map) == TRUE
HasSources(map) == Len(map) > 0

\* what the catch clause of streamAppContent yields
CatchFragmentNothing == <<>>
CatchFragment == <<ERROR_GENERATING>>

\* accumulatedContent += chunk; prev + chunk
ConcatPrepends(prev, chunk) == chunk \o prev
Concat(prev, chunk) == prev \o chunk

\* the click whose generation is followed
\* pastInteractions.forEach((interaction, index) => ...): entry index + 1
\* names the app, the id and the type of pastInteractions[index]
HistoryPrompt(history) ==
  LET pastInteractions == Tail(history)
  IN [index \in 1..Len(pastInteractions) |->
        [number |-> index,
         app |-> pastInteractions[index].appContext,
         id |-> pastInteractions[index].id,
         type |-> pastInteractions[index].type]]

ClickRecord == InteractionRecord(GENERIC_BUTTON, WEB_BROWSER_APP, "")

\* handleInteraction is about to call internalHandleLlmRequest: the screen
\* has been emptied.  The argument is what handleInteraction passes, or the
\* empty history the guard of internalHandleLlmRequest is written for.
StreamInit ==
  /\ activeApp = WEB_BROWSER_APP
  /\ llmContent = <<>>
  /\ isLoading = FALSE
  /\ error = NoError
  /\ historyArg \in
       {<<>>, <<ClickRecord, AppOpenRecord(WEB_BROWSER_APP)>>}
  /\ interactionHistory = historyArg
  /\ appDefinitions = APP_DEFINITIONS_CONFIG
  /\ appContentCache = <<>>
  /\ currentAppPath = <<WEB_BROWSER_APP, GENERIC_BUTTON>>
  /\ inputAudioContextRef = 0
  /\ outputAudioContextRef = 0
  /\ liveSessionRef = 0
  /\ liveCount = 0
  /\ sessions = <<>>
  /\ gens = <<>>
  /\ arts = <<>>
  /\ apiKey \in BOOLEAN
  /\ markupIds = PlainIds
  /\ cacheSet = FALSE
  /\ response = <<>>
  /\ throws = FALSE
  /\ pc = "idle"
  /\ pos = 0
  /\ allGroundingChunks = <<>>
  /\ yielded = <<>>
  /\ accumulatedContent = <<>>
  /\ historyPromptSegment = <<>>
  /\ PcmIdle
  /\ PlayIdle

\* what the steps of the activation leave alone
streamFrame ==
  <<activeApp, interactionHistory, currentAppPath, appDefinitions,
    audioVars, arts, apiKey, markupIds, historyArg, pcmVars, playVars>>

\* One iteration of the for-await loop of internalHandleLlmRequest.
Consume(chunk) ==
  /\ yielded' = Append(yielded, chunk)
  /\ accumulatedContent' = Concat(accumulatedContent, chunk)
  /\ llmContent' = Concat(llmContent, chunk)

\* internalHandleLlmRequest up to `streamAppContent(...)`
LlmRequestCall ==
  /\ pc = "idle"
  /\ internalHandleLlmRequest(historyArg, NullContent, Join(currentAppPath))
  /\ pc' = IF Len(gens') > Len(gens) THEN "called" ELSE "done"
  /\ UNCHANGED <<llmContent, response, throws, pos, allGroundingChunks,
                 yielded, accumulatedContent, streamFrame,
                 historyPromptSegment>>
  /\ Commit

\* streamAppContent from its first line to generateContentStream
GeneratorOpen ==
  /\ pc = "called"
  /\ IF ~apiKey
     THEN /\ Consume(<<CONFIG_ERROR>>)
          /\ pc' = "return"
     ELSE IF Len(historyArg) = 0
     THEN /\ Consume(<<NO_INTERACTION_DATA>>)
          /\ pc' = "return"
     ELSE /\ pc' = "loop"
          /\ UNCHANGED <<yielded, accumulatedContent, llmContent>>
  /\ historyPromptSegment' =
       IF apiKey /\ Len(historyArg) # 0
       THEN HistoryPrompt(historyArg) ELSE historyPromptSegment
  /\ UNCHANGED <<isLoading, error, gens, response, throws, pos,
                 allGroundingChunks, streamFrame>>
  /\ Commit

\* for await (const chunk of response): the remote stream delivers a chunk
GeneratorChunk ==
  /\ pc = "loop"
  /\ pos < MaxResponse
  /\ \E text \in Texts, web \in WebLists :
       /\ response' = Append(response, [text |-> text, web |-> web])
       /\ IF text # <<>>
          THEN Consume(text)
          ELSE UNCHANGED <<yielded, accumulatedContent, llmContent>>
       /\ allGroundingChunks' = MapSetAll(allGroundingChunks, web)
  /\ pos' = pos + 1
  /\ UNCHANGED <<isLoading, error, gens, throws, pc, streamFrame,
                 historyPromptSegment>>
  /\ Commit

\* the remote stream is exhausted: the sources block, if any
GeneratorSources ==
  /\ pc = "loop"
  /\ IF HasSources(allGroundingChunks)
     THEN Consume(SourcesHtml(allGroundingChunks))
     ELSE UNCHANGED <<yielded, accumulatedContent, llmContent>>
  /\ pc' = "return"
  /\ UNCHANGED <<isLoading, error, gens, response, throws, pos,
                 allGroundingChunks, streamFrame,
                 historyPromptSegment>>
  /\ Commit

\* generateContentStream rejects, or the remote stream throws: the catch
\* clause of streamAppContent
GeneratorCatch ==
  /\ pc = "loop"
  /\ throws' = TRUE
  /\ Consume(CatchFragment)
  /\ pc' = "return"
  /\ UNCHANGED <<isLoading, error, gens, response, pos,
                 allGroundingChunks, streamFrame,
                 historyPromptSegment>>
  /\ Commit

\* the generator has returned: finally { setIsLoading(false) }
LlmRequestFinally ==
  /\ pc = "return"
  /\ isLoading' = FALSE
  /\ gens' = [gens EXCEPT ![Len(gens)] = DoneGen(Len(gens))]
  /\ pc' = "done"
  /\ UNCHANGED <<llmContent, error, response, throws, pos,
                 allGroundingChunks, yielded, accumulatedContent, streamFrame,
                 historyPromptSegment>>
  /\ Commit

StreamNext ==
  \/ LlmRequestCall
  \/ GeneratorOpen
  \/ GeneratorChunk
  \/ GeneratorSources
  \/ GeneratorCatch
  \/ LlmRequestFinally

StreamSpec == StreamInit /\ [][StreamNext]_vars

\* the fragments of a list, joined in order
RECURSIVE Flatten(_)
Flatten(frags) ==
  IF frags = <<>> THEN <<>> ELSE Head(frags) \o Flatten(Tail(frags))

\* the text the remote stream has delivered, whatever its division in chunks
RECURSIVE TextOf(_)
TextOf(chunks) ==
  IF chunks = <<>> THEN <<>> ELSE Head(chunks).text \o TextOf(Tail(chunks))

\* some chunk of the response carried a citation
Cited == \E i \in 1..Len(response) : response[i].web # <<>>

\* the places of the sources block and of the error block among the fragments
SourcesAt ==
  {i \in 1..Len(yielded) :
     yielded[i] # <<>> /\ Head(yielded[i]) = SOURCES_HEAD}
ErrorAt ==
  {i \in 1..Len(yielded) :
     yielded[i] # <<>> /\ Head(yielded[i]) = ERROR_GENERATING}

\* the stream of generateContentStream was opened and ran to its end
EndedNormally == pc \in {"return", "done"} /\ apiKey /\ ~throws /\ historyArg # <<>>

\* C11: for one generation running alone, the local accumulator and the
\* content shown are, at every moment, the fragments yielded so far joined in
\* arrival order; and when the text of a stream that ended normally without
\* citations is divided into fragments, the final content is that text,
\* whatever the division.
C11_AccumulationIsConcatenation ==
  /\ accumulatedContent = Flatten(yielded)
  /\ llmContent = accumulatedContent
  /\ (EndedNormally /\ ~Cited) => llmContent = TextOf(response)

\* a text of two different characters has arrived in two fragments and the
\* generation has returned
C11_Witness ==
  /\ pc = "done"
  /\ ~throws /\ ~Cited
  /\ Len(yielded) = 2
  /\ Len(yielded[1]) = 1 /\ Len(yielded[2]) = 1
  /\ yielded[1] # yielded[2]
  /\ llmContent = yielded[1] \o yielded[2]

\* the first title each URI was cited with, in the order of first citation
FirstSeen == 
  LET webs == Flatten([i \in 1..Len(response) |-> response[i].web])
      RECURSIVE Keep(_, _)
      Keep(ws, map) ==
        IF ws = <<>> THEN map
        ELSE Keep(Tail(ws), MapSetKeepsFirst(map, ws[1].uri, ws[1].title))
  IN Keep(webs, <<>>)

\* C12: the sources block lists each cited URI once, with the title of the
\* first chunk that cited it.
C12_FirstSeenTitleWins ==
  \A i \in SourcesAt :
    /\ Len(yielded[i]) = Len(FirstSeen) + 2
    /\ \A k \in 1..Len(FirstSeen) :
         yielded[i][k + 1] = SourceItem(FirstSeen[k])

\* C13: no sources block while the stream runs; after a normal end exactly
\* one, as the last fragment, if and only if a citation was collected; after a
\* failure none, whatever was collected.
C13_SourcesFragmentIffCited ==
  /\ pc \notin {"return", "done"} => SourcesAt = {}
  /\ EndedNormally =>
       SourcesAt = (IF Cited THEN {Len(yielded)} ELSE {})
  /\ throws => SourcesAt = {}

\* two chunks with text, the second with a citation: the sources block is
\* the third and last fragment
C13_Witness ==
  /\ pc = "done"
  /\ ~throws
  /\ Len(response) = 2
  /\ response[1].web = <<>> /\ response[2].web # <<>>
  /\ Len(yielded) = 3
  /\ SourcesAt = {3}

\* C14: when the remote generator fails, at the opening or after any number
\* of fragments, internalHandleLlmRequest sees no exception (its catch clause
\* sets no error); the fragments end with exactly one error block, the
\* fragments delivered before it are the beginning of the content shown, and
\* the activation returns with isLoading false.
C14_FailureEndsInErrorFragment ==
  /\ throws =>
       /\ pc \in {"return", "done"}
       /\ ErrorAt = {Len(yielded)}
       /\ yielded[Len(yielded)] = <<ERROR_GENERATING>>
       /\ llmContent =
            Flatten(SubSeq(yielded, 1, Len(yielded) - 1)) \o <<ERROR_GENERATING>>
       /\ Flatten(SubSeq(yielded, 1, Len(yielded) - 1)) = TextOf(response)
       /\ error = NoError
  /\ ~throws => ErrorAt = {}
  /\ pc = "done" => ~isLoading

\* the failure came after two fragments had been delivered
C14_Witness ==
  /\ pc = "done"
  /\ throws
  /\ Len(yielded) = 3
  /\ Len(llmContent) >= 3
  /\ ~isLoading

\* C15: a generation started with an empty history sets the empty-history
\* error at once; the generator yields no fragment and the content is what it
\* was.
C15_EmptyHistoryYieldsNothing ==
  /\ []((historyArg = <<>> /\ pc # "idle") =>
         /\ pc = "done"
         /\ error = "No interaction data to process."
         /\ yielded = <<>>
         /\ llmContent = <<>>
         /\ ~isLoading
         /\ gens = <<>>)
  /\ [][(historyArg = <<>> /\ pc = "idle") =>
          (llmContent' = llmContent /\ yielded' = yielded)]_vars

\* the call with the empty history has returned
C15_Witness ==
  /\ historyArg = <<>>
  /\ pc = "done"
  /\ error = "No interaction data to process."
  /\ apiKey

\* C16: an interaction that starts or stops the live session, with the
\* effects that follow its commit, leaves the content cache as it was.
C16_LiveSessionLeavesCache ==
  [][\A d \in InteractionInputs :
       (handleInteraction(d)
          /\ d.id \in {START_LIVE_SESSION, STOP_LIVE_SESSION}) =>
         appContentCache' = appContentCache]_vars

\* ======================================================================
\* The audio helpers: createPcmBlob on a captured frame, and decode with
\* decodeAudioData on the frame it produced.  A sample is the numerator of a
\* fraction over SampleDen; a decoded sample is a numerator over PCM_SCALE.
\* ======================================================================
MaxSamples == 2             \* samples in one frame
StepParts == 2              \* sample values followed between two PCM values

PCM_SCALE == 32768          \* data[i] * 32768 and dataInt16[...] / 32768.0
INT16_MODULUS == 65536      \* values of an Int16Array element
BYTE_MODULUS == 256         \* values of a Uint8Array element
SEXTET_MODULUS == 64        \* values of a base64 digit
PAD == 64                   \* the digit '='

\* samples are followed to this fraction of a quantization step
SampleDen == StepParts * PCM_SCALE
\* the samples of [-1, 1] the frames are made of: the two ends, their
\* neighbours, zero and its neighbours, and one in between
SampleNumerators ==
  {-SampleDen, 1 - SampleDen, -3, -1, 0, 1, 3, PCM_SCALE, SampleDen - 1,
   SampleDen}
Frames == UNION {[1..n -> SampleNumerators] : n \in 1..MaxSamples}

\* the session in which the helpers run: web_browser_app was opened, its
\* screen arrived in one chunk, and start-live-session was clicked
SessionOpen ==
  /\ activeApp = WEB_BROWSER_APP
  /\ llmContent = <<LISTENING>>
  /\ isLoading = FALSE
  /\ error = NoError
  /\ interactionHistory = <<AppOpenRecord(WEB_BROWSER_APP)>>
  /\ appDefinitions = APP_DEFINITIONS_CONFIG
  /\ appContentCache = [k \in {WEB_BROWSER_APP} |-> <<LISTENING>>]
  /\ currentAppPath = <<WEB_BROWSER_APP>>
  /\ inputAudioContextRef = 1
  /\ outputAudioContextRef = 1
  /\ liveSessionRef = 1
  /\ liveCount = 1
  /\ sessions = <<NewSession("none")>>
  /\ gens = <<[st |-> "done", n |-> 1, last |-> "none", history |-> <<>>,
               previousContent |-> <<>>, key |-> <<>>]>>
  /\ arts = <<>>
  /\ apiKey = TRUE
  /\ markupIds = InteractionIds
  /\ cacheSet = TRUE

\* the number an Int16Array element holds after `element = x`, for x the
\* fraction num / den: x is truncated toward zero, then taken modulo 2^16
\* into the signed range.  data[i] * 32768 is the fraction data[i] / StepParts.
TruncRounds(num, den) == (2 * num + den) \div (2 * den)
Trunc(num, den) ==
  IF num >= 0 THEN num \div den ELSE -((-num) \div den)

ToInt16Saturates(n) ==
  IF n > INT16_MODULUS \div 2 - 1 THEN INT16_MODULUS \div 2 - 1
  ELSE IF n < -(INT16_MODULUS \div 2) THEN -(INT16_MODULUS \div 2)
  ELSE n
ToInt16(n) ==
  LET u == n % INT16_MODULUS
  IN IF u >= INT16_MODULUS \div 2 THEN u - INT16_MODULUS ELSE u

\* new Uint8Array(int16.buffer): two bytes for each element, low byte first
RECURSIVE BytesOf(_)
BytesOf(ints) ==
  IF ints = <<>> THEN <<>>
  ELSE LET u == Head(ints) % INT16_MODULUS
       IN <<u % BYTE_MODULUS, u \div BYTE_MODULUS>> \o BytesOf(Tail(ints))

\* new Int16Array(data.buffer): a RangeError for an odd number of bytes
RECURSIVE Int16Of(_)
Int16Of(bytes) ==
  IF Len(bytes) < 2 THEN <<>>
  ELSE <<ToInt16(bytes[1] + BYTE_MODULUS * bytes[2])>>
         \o Int16Of(SubSeq(bytes, 3, Len(bytes)))

\* btoa of the binary string whose character codes are the bytes
RECURSIVE Btoa(_)
Btoa(bytes) ==
  IF bytes = <<>> THEN <<>>
  ELSE IF Len(bytes) = 1
  THEN <<bytes[1] \div 4, (bytes[1] % 4) * 16, PAD, PAD>>
  ELSE IF Len(bytes) = 2
  THEN <<bytes[1] \div 4, (bytes[1] % 4) * 16 + bytes[2] \div 16,
         (bytes[2] % 16) * 4, PAD>>
  ELSE <<bytes[1] \div 4, (bytes[1] % 4) * 16 + bytes[2] \div 16,
         (bytes[2] % 16) * 4 + bytes[3] \div SEXTET_MODULUS,
         bytes[3] % SEXTET_MODULUS>>
         \o Btoa(SubSeq(bytes, 4, Len(bytes)))

\* atob, and the character codes of the binary string it returns
RECURSIVE Atob(_)
Atob(digits) ==
  IF Len(digits) < 4 THEN <<>>
  ELSE (IF digits[3] = PAD
        THEN <<digits[1] * 4 + digits[2] \div 16>>
        ELSE IF digits[4] = PAD
        THEN <<digits[1] * 4 + digits[2] \div 16,
               (digits[2] % 16) * 16 + digits[3] \div 4>>
        ELSE <<digits[1] * 4 + digits[2] \div 16,
               (digits[2] % 16) * 16 + digits[3] \div 4,
               (digits[3] % 4) * SEXTET_MODULUS + digits[4]>>)
         \o Atob(SubSeq(digits, 5, Len(digits)))

PcmInit ==
  /\ SessionOpen
  /\ StreamIdle
  /\ PlayIdle
  /\ data \in Frames
  /\ int16 = <<>>
  /\ base64 = <<>>
  /\ channelData = <<>>
  /\ stage = "captured"

\* createPcmBlob(data)
createPcmBlob ==
  /\ stage = "captured"
  /\ LET filled ==
           [i \in 1..Len(data) |->
              ToInt16(Trunc(data[i], StepParts))]
     IN /\ int16' = filled
        /\ base64' = Btoa(BytesOf(filled))
  /\ stage' = "encoded"
  /\ UNCHANGED <<data, channelData>>
  /\ UNCHANGED <<uiVars, audioVars, appDefinitions, appContentCache, gens,
                 arts, apiKey, markupIds, cacheSet, streamVars, playVars>>

\* decodeAudioData(decode(base64), ctx, sampleRate, 1)
decodeAudioData ==
  /\ stage = "encoded"
  /\ channelData' = Int16Of(Atob(base64))
  /\ stage' = "decoded"
  /\ UNCHANGED <<data, int16, base64>>
  /\ UNCHANGED <<uiVars, audioVars, appDefinitions, appContentCache, gens,
                 arts, apiKey, markupIds, cacheSet, streamVars, playVars>>

PcmNext ==
  \/ createPcmBlob
  \/ decodeAudioData

PcmSpec == PcmInit /\ [][PcmNext]_vars

\* round(s * 32768) clipped to the 16-bit signed range, for the sample
\* s = num / SampleDen, whose product s * 32768 is num / StepParts
RoundClipped(num) == ToInt16Saturates(TruncRounds(num, StepParts))

\* C17: every sample s of [-1, 1] is encoded as round(s * 32768) clipped to
\* [-32768, 32767]: 1.0 gives 32767, and a fractional product goes to the
\* nearest integer.
C17_EncodingSaturatesAndRounds ==
  stage # "captured" =>
    /\ Len(int16) = Len(data)
    /\ \A i \in 1..Len(data) : int16[i] = RoundClipped(data[i])

\* C18: the decoded frame has the samples of the encoded one, in number and
\* in order, each within 1/32768 of the sample it comes from.
C18_RoundTripWithinOneStep ==
  stage = "decoded" =>
    /\ Len(channelData) = Len(data)
    /\ \A i \in 1..Len(data) :
         LET diff == channelData[i] * StepParts - data[i]
         IN /\ diff <= StepParts
            /\ -diff <= StepParts

\* ======================================================================
\* The playback of one live session: the onmessage callback on the inbound
\* audio frames, and the clock of the output device.  Times are whole ticks.
\* ======================================================================
MaxBuffers == 3             \* inbound frames with audio
MaxDuration == 2            \* audioBuffer.duration
MaxClock == 4               \* how far the device clock is followed

Max(a, b) == IF a > b THEN a ELSE b

PlayInit ==
  /\ SessionOpen
  /\ StreamIdle
  /\ PcmIdle
  /\ nextStartTime = 0
  /\ currentTime = 0
  /\ started = <<>>

\* Math.max(outputAudioContextRef.current.currentTime, nextStartTime)
\*   + audioBuffer.duration
NextCursorFromClock(clock, cursor, duration) == clock + duration
NextCursorDropsDuration(clock, cursor, duration) == Max(clock, cursor)
NextCursor(clock, cursor, duration) == Max(clock, cursor) + duration

\* the device clock advances
ClockAdvance ==
  /\ currentTime < MaxClock
  /\ currentTime' = currentTime + 1
  /\ UNCHANGED <<nextStartTime, started>>
  /\ UNCHANGED <<uiVars, audioVars, appDefinitions, appContentCache, gens,
                 arts, apiKey, markupIds, cacheSet, streamVars, pcmVars>>

\* onmessage with audio data: source.start(nextStartTime), then the cursor
onmessage(duration) ==
  /\ outputAudioContextRef # 0
  /\ Len(started) < MaxBuffers
  /\ started' = Append(started, [when |-> nextStartTime,
                                 clock |-> currentTime,
                                 duration |-> duration])
  /\ nextStartTime' = NextCursor(currentTime, nextStartTime, duration)
  /\ UNCHANGED currentTime
  /\ UNCHANGED <<uiVars, audioVars, appDefinitions, appContentCache, gens,
                 arts, apiKey, markupIds, cacheSet, streamVars, pcmVars>>

PlayNext ==
  \/ ClockAdvance
  \/ \E duration \in 1..MaxDuration : onmessage(duration)

PlaySpec == PlayInit /\ [][PlayNext]_vars

\* a step of onmessage
BufferStep == Len(started') = Len(started) + 1

\* C19: every buffer is started at max(device clock, cursor), and the cursor
\* is then that start time plus the duration of the buffer, also when the
\* clock has passed the cursor.
C19_StartsAtMaxOfClockAndCursor ==
  [][BufferStep =>
       LET b == started'[Len(started')]
       IN /\ b.when = Max(currentTime, nextStartTime)
          /\ nextStartTime' = b.when + b.duration]_vars

\* when the device begins to play a buffer: a start time already past means
\* at once
PlaysAt(b) == Max(b.when, b.clock)

\* C20: whatever the arrival times, a buffer is started no earlier than the
\* start of the buffer before it plus that buffer's duration, it begins to
\* play no earlier than the buffer before it ends, and the cursor never
\* decreases.
C20_NoOverlap ==
  /\ [](\A i \in 1..(Len(started) - 1) :
          /\ started[i + 1].when >= started[i].when + started[i].duration
          /\ PlaysAt(started[i + 1]) >= PlaysAt(started[i]) + started[i].duration)
  /\ [][nextStartTime' >= nextStartTime]_vars

\* three buffers: the second arrived after the first had ended (underrun),
\* the third while the second was still to play
C20_Witness ==
  /\ Len(started) = 3
  /\ started[2].clock > started[1].when + started[1].duration
  /\ started[3].clock < started[3].when
  /\ started[2].duration # started[1].duration

RECURSIVE SumDurations(_)
SumDurations(bs) ==
  IF bs = <<>> THEN 0 ELSE Head(bs).duration + SumDurations(Tail(bs))

\* no buffer after the first arrived after the clock had passed the cursor
NoUnderrun == \A i \in 2..Len(started) : started[i].clock <= started[i].when

\* C21 as stated: after any number of buffers the cursor is the start of the
\* first buffer plus the sum of the durations of all of them.
C21_Original ==
  started # <<>> =>
    nextStartTime = PlaysAt(started[1]) + SumDurations(started)

\* C21: after n buffers the cursor is the start of the first buffer plus the
\* sum of the n durations when no later buffer arrived after the clock had
\* passed the cursor, and it is never less than that; it is always the start
\* of the last buffer plus the duration of the last buffer.
C21_CursorIsStartPlusDurations ==
  started # <<>> =>
    /\ nextStartTime >= PlaysAt(started[1]) + SumDurations(started)
    /\ NoUnderrun =>
         nextStartTime = PlaysAt(started[1]) + SumDurations(started)
    /\ LET last == started[Len(started)]
       IN nextStartTime = PlaysAt(last) + last.duration

\* three buffers of different durations back to back, the first arriving
\* when the clock had already advanced
C21_Witness ==
  /\ Len(started) = 3
  /\ NoUnderrun
  /\ started[1].clock > 0
  /\ started[3].clock > started[1].clock
  /\ started[1].duration # started[2].duration
  /\ nextStartTime = started[1].clock + SumDurations(started)

\* ------------------------------------------------- the live voice session
\* The session handlers of App together with the callbacks handed to
\* ai.live.connect, which run whenever the transport calls them: the session
\* is never closed by the code, only its handle is dropped.
LiveInit ==
  /\ activeApp = NoApp
  /\ llmContent = <<>>
  /\ isLoading = FALSE
  /\ error = NoError
  /\ interactionHistory = <<>>
  /\ appDefinitions = APP_DEFINITIONS_CONFIG
  /\ appContentCache = <<>>
  /\ currentAppPath = <<>>
  /\ inputAudioContextRef = 0
  /\ outputAudioContextRef = 0
  /\ liveSessionRef = 0
  /\ liveCount = 0
  /\ sessions = <<>>
  /\ gens = <<>>
  /\ arts = <<>>
  /\ apiKey = TRUE
  /\ markupIds = LiveIds
  /\ cacheSet = FALSE
  /\ StreamIdle
  /\ PcmIdle
  /\ PlayIdle

liveFrame ==
  <<uiVars, inputAudioContextRef, outputAudioContextRef, liveSessionRef,
    liveCount, appDefinitions, appContentCache, gens, arts, apiKey,
    markupIds, cacheSet, detailVars>>

\* onopen, up to `await navigator.mediaDevices.getUserMedia({audio: true})`
onopen(k) ==
  /\ sessions[k].transport = "connecting"
  /\ sessions' = [sessions EXCEPT ![k].transport = "open",
                                  ![k].mic = "asking"]
  /\ UNCHANGED liveFrame

\* getUserMedia resolves and onopen goes on with
\* inputAudioContextRef.current!.createMediaStreamSource(stream): a
\* TypeError (capture -1) when the ref is null, else the capture graph is
\* built on the device the ref holds now
getUserMediaResolved(k) ==
  /\ sessions[k].mic = "asking"
  /\ sessions' = [sessions EXCEPT
                    ![k].mic = "granted",
                    ![k].capture = IF inputAudioContextRef = 0 THEN -1
                                   ELSE inputAudioContextRef]
  /\ UNCHANGED liveFrame

\* getUserMedia rejects: the promise of onopen rejects, nothing handles it
getUserMediaRejected(k) ==
  /\ sessions[k].mic = "asking"
  /\ sessions' = [sessions EXCEPT ![k].mic = "denied"]
  /\ UNCHANGED liveFrame

\* processor.onaudioprocess: fires while the device of the graph runs;
\* sessionPromise.then(session => session.sendRealtimeInput(...))
onaudioprocess(k) ==
  /\ sessions[k].capture > 0
  /\ sessions[sessions[k].capture].input = "open"
  /\ sessions[k].frames < MaxFrames
  /\ sessions' = [sessions EXCEPT ![k].frames = @ + 1]
  /\ UNCHANGED liveFrame

\* onmessage of session k with audio data:
\* if (audioData && outputAudioContextRef.current) { ... source.start(...) }
onmessageOf(k) ==
  /\ sessions[k].transport = "open"
  /\ outputAudioContextRef # 0
  /\ sessions' = [sessions EXCEPT
                    ![outputAudioContextRef].playedFrom = @ \cup {k}]
  /\ UNCHANGED liveFrame

LiveNext ==
  \/ \E app \in appDefinitions : handleAppOpen(app)
  \/ handleCloseAppView
  \/ \E d \in InteractionInputs : handleInteraction(d)
  \/ \E g \in 1..Len(gens) : StreamFragment(g)
  \/ \E g \in 1..Len(gens) : StreamEnd(g)
  \/ \E k \in 1..Len(sessions) : onopen(k)
  \/ \E k \in 1..Len(sessions) : getUserMediaResolved(k)
  \/ \E k \in 1..Len(sessions) : getUserMediaRejected(k)
  \/ \E k \in 1..Len(sessions) : onaudioprocess(k)
  \/ \E k \in 1..Len(sessions) : onmessageOf(k)

LiveSpec == LiveInit /\ [][LiveNext]_vars

\* a step of stop(): the stop-live-session branch or handleCloseAppView
StopStep ==
  \/ handleCloseAppView
  \/ \E d \in InteractionInputs : Rendered /\ StopLiveSession(d)

NoSessionHeld ==
  /\ inputAudioContextRef = 0
  /\ outputAudioContextRef = 0
  /\ liveSessionRef = 0

\* close() is only ever called on a device that is open
HeldDevicesAreOpen ==
  /\ inputAudioContextRef # 0 => sessions[inputAudioContextRef].input = "open"
  /\ outputAudioContextRef # 0 =>
       sessions[outputAudioContextRef].output = "open"

\* C22: from every session state a stop leaves the two devices the session
\* holds closed and the three handles dropped, every device it closes was
\* open, and a stop taken when nothing is held changes nothing of any
\* session.
C22_StopIsTotalAndIdempotent ==
  /\ []HeldDevicesAreOpen
  /\ [][StopStep =>
         /\ NoSessionHeld'
         /\ inputAudioContextRef # 0 =>
              sessions'[inputAudioContextRef].input = "closed"
         /\ outputAudioContextRef # 0 =>
              sessions'[outputAudioContextRef].output = "closed"
         /\ NoSessionHeld => sessions' = sessions /\ liveCount' = liveCount]_vars

\* a session that was capturing and playing has been stopped, and the app
\* closed after it: a second stop
C22_Witness ==
  /\ activeApp = NoApp
  /\ NoSessionHeld
  /\ Len(sessions) = 1
  /\ sessions[1].stopped
  /\ sessions[1].input = "closed" /\ sessions[1].output = "closed"
  /\ sessions[1].capture = 1 /\ sessions[1].playedFrom = {1}
  /\ error = NoError

\* the devices or the handle of session k are held
Held(k) ==
  \/ inputAudioContextRef = k
  \/ outputAudioContextRef = k
  \/ liveSessionRef = k

\* C23: when the microphone is denied to a session that is starting, the
\* error is set and neither a device nor the handle of the session stays
\* held, nor a device of it open.
C23_DenialLeavesIdle ==
  [][\A k \in 1..Len(sessions) :
       sessions[k].mic = "asking" /\ sessions'[k].mic = "denied" =>
         /\ error' # NoError
         /\ ~Held(k)'
         /\ sessions'[k].input # "open"
         /\ sessions'[k].output # "open"]_vars

\* the blocks of the loading placeholder of an image or a video request
Placeholder(kind) ==
  IF kind = "imagen" THEN {IMAGEN_WAIT} ELSE {VEO_WAIT_HEAD, VEO_WAIT_TAIL}

\* the only request of its kind that is waiting
OnlyWaiting(t) ==
  \A u \in 1..Len(arts) :
    arts[u].st = "wait" /\ arts[u].kind = arts[t].kind => u = t

\* C24: when the one image or video request that is waiting fails, no block
\* of its loading placeholder remains in the content and isLoading is false.
C24_FailedArtifactRestoresContent ==
  [][\A t \in 1..Len(arts) :
       ArtifactReject(t) /\ OnlyWaiting(t) =>
         /\ ~isLoading'
         /\ \A i \in 1..Len(llmContent') :
              llmContent'[i] \notin Placeholder(arts[t].kind)]_vars

\* ------------------------------------------------------- ids and the key
\* the desktop after an app was installed under a name of the user
KeyInit ==
  /\ activeApp = NoApp
  /\ llmContent = <<>>
  /\ isLoading = FALSE
  /\ error = NoError
  /\ interactionHistory = <<>>
  /\ \E appName \in AppNames :
       appDefinitions = APP_DEFINITIONS_CONFIG \cup {CustomAppIdOf(appName, "now")}
  /\ appContentCache = <<>>
  /\ currentAppPath = <<>>
  /\ inputAudioContextRef = 0
  /\ outputAudioContextRef = 0
  /\ liveSessionRef = 0
  /\ liveCount = 0
  /\ sessions = <<>>
  /\ gens = <<>>
  /\ arts = <<>>
  /\ apiKey = TRUE
  /\ markupIds = KeyIds
  /\ cacheSet = FALSE
  /\ StreamIdle
  /\ PcmIdle
  /\ PlayIdle

KeyNext ==
  \/ \E app \in appDefinitions : handleAppOpen(app)
  \/ handleCloseAppView
  \/ \E d \in InteractionInputs : handleInteraction(d)
  \/ \E g \in 1..Len(gens) : StreamFragment(g)
  \/ \E g \in 1..Len(gens) : StreamEnd(g)

KeySpec == KeyInit /\ [][KeyNext]_vars

HasSep(id) == \E j \in 1..Len(id) : id[j] = SEP

\* C25: the separator occurs in no element of the path, so that the key of
\* the path, split at the separators, gives the path back.
C25_SeparatorNeverInsideAnId ==
  \A i \in 1..Len(currentAppPath) : ~HasSep(currentAppPath[i])

\* ------------------------------------------- the prompt of streamAppContent
\* the elements clicked, in the order of the clicks
Clicked == <<<<"first">>, <<"second">>, <<"third">>>>

\* the history handleAppOpen and then handleInteraction leave after the
\* first n of these clicks in web_browser_app
RECURSIVE HistoryAfter(_)
HistoryAfter(n) ==
  IF n = 0
  THEN <<AppOpenRecord(WEB_BROWSER_APP)>>
  ELSE NewHistoryOf(InteractionRecord(Clicked[n], WEB_BROWSER_APP, ""),
                    HistoryAfter(n - 1), PromptHistoryLength)

\* handleInteraction is about to call internalHandleLlmRequest for the last
\* of n clicks
PromptInit ==
  /\ activeApp = WEB_BROWSER_APP
  /\ llmContent = <<>>
  /\ isLoading = FALSE
  /\ error = NoError
  /\ \E n \in 1..MaxClicks :
       /\ historyArg = HistoryAfter(n)
       /\ currentAppPath = <<WEB_BROWSER_APP>> \o SubSeq(Clicked, 1, n)
  /\ interactionHistory = historyArg
  /\ appDefinitions = APP_DEFINITIONS_CONFIG
  /\ appContentCache = <<>>
  /\ inputAudioContextRef = 0
  /\ outputAudioContextRef = 0
  /\ liveSessionRef = 0
  /\ liveCount = 0
  /\ sessions = <<>>
  /\ gens = <<>>
  /\ arts = <<>>
  /\ apiKey = TRUE
  /\ markupIds = PlainIds
  /\ cacheSet = FALSE
  /\ response = <<>>
  /\ throws = FALSE
  /\ pc = "idle"
  /\ pos = 0
  /\ allGroundingChunks = <<>>
  /\ yielded = <<>>
  /\ accumulatedContent = <<>>
  /\ historyPromptSegment = <<>>
  /\ PcmIdle
  /\ PlayIdle

PromptSpec == PromptInit /\ [][StreamNext]_vars

\* which click an entry of the prompt names: 0 for the opening of the app
ClickedAt(entry) ==
  IF entry.type = "app_open" THEN 0
  ELSE CHOOSE n \in 1..Len(Clicked) : Clicked[n] = entry.id

\* C26: the prior interactions are numbered from 1 without gaps and listed
\* oldest first: an entry with a smaller number names an earlier
\* interaction.
C26_PriorInteractionsOldestFirst ==
  /\ \A i \in 1..Len(historyPromptSegment) :
       historyPromptSegment[i].number = i
  /\ \A i, j \in 1..Len(historyPromptSegment) :
       i < j => ClickedAt(historyPromptSegment[i])
                  < ClickedAt(historyPromptSegment[j])

\* C27: every record of the history has an element text of at most
\* ELEMENT_TEXT_LIMIT characters, the app_open records included.
C27_ElementTextAtMostLimit ==
  \A i \in 1..Len(interactionHistory) :
    interactionHistory[i].elementText <= ELEMENT_TEXT_LIMIT

\* C28: a frame received by a session that was stopped is never started on
\* an output device, that of a later session included.
C28_StoppedSessionNeverSchedules ==
  [][\A k, j \in 1..Len(sessions) :
       k \in sessions'[j].playedFrom /\ k \notin sessions[j].playedFrom =>
         ~sessions[k].stopped]_vars

\* C29: once a session is stopped, its onopen callback neither fails on a
\* released device nor builds a capture graph, the microphone is not
\* acquired for it and it transmits no captured frame.
C29_LateOpenAfterStopIsInert ==
  [][\A k \in 1..Len(sessions) :
       sessions[k].stopped =>
         /\ sessions'[k].capture = sessions[k].capture
         /\ sessions'[k].frames = sessions[k].frames
         /\ sessions'[k].mic = "granted" => sessions[k].mic = "granted"]_vars

\* a generation stream or an image or video request has started and has not
\* terminated
Outstanding ==
  \/ \E g \in 1..Len(gens) : gens[g].st \in {"run", "ending"}
  \/ \E t \in 1..Len(arts) :
       arts[t].st = "wait" /\ arts[t].kind \in {"imagen", "veo"}

\* C30: while an app is open, isLoading is true in every state in which a
\* generation stream or an image or video request is outstanding.
C30_LoadingWhileOutstanding ==
  activeApp # NoApp /\ Outstanding => isLoading

====
